---- MODULE Spec2Model ----
(***************************************************************************)
(* A model of bloodyAD/utils.py: the identifier resolver (resolvDN), the   *)
(* account-control toggler (userAccountControl), the password buffer       *)
(* (cryptPassword), the SAMR password change (rpcChangePassword) and the   *)
(* ACE builder (createACE).                                                *)
(*                                                                         *)
(* Python strings that the code inspects character by character are        *)
(* sequences of one-character strings; bytes are sequences of 0..255.      *)
(***************************************************************************)
EXTENDS Integers, Sequences, FiniteSets, TLC

VARIABLES
    \* ---- resolvDN called on its own
    serverInfo,     \* conn.server.info.other['defaultNamingContext']
    identity,       \* the argument of the resolvDN call
    response,       \* conn.response: what the directory answers to a search
    searches,       \* the conn.search calls the call issued: base and filter
    outcome,        \* what the call returned or raised
    \* ---- userAccountControl, two callers on one directory object
    stored,         \* the object's userAccountControl attribute on the server
    exists,         \* whether a search at the object's DN yields an entry
    pc,             \* each caller's position in userAccountControl
    args,           \* each caller's arguments (identity, enable, flag)
    user_dn,        \* each caller's local user_dn
    uac,            \* each caller's local userAccountControl
    modifies,       \* the conn.modify requests the server received, in order
    result,         \* each caller's conn.result after its modify
    ended,          \* how each caller's call ended
    readAt,         \* what each caller's read saw: the value, and how many
                    \* modifies the server had received by then
    \* ---- rpcChangePassword / cryptPassword
    rpc,            \* position in rpcChangePassword
    new_pass,       \* the new password, a sequence of code points
    handles,        \* the values the remote calls returned so far
    calls,          \* the remote calls issued, in order, with their arguments
    crypt,          \* what cryptPassword built
    rpcEnded,       \* how the call ended
    \* ---- createACE
    nace            \* the ACE createACE returned

resolveVars == <<serverInfo, identity, response, searches, outcome>>
uacVars     == <<stored, exists, pc, args, user_dn, uac, modifies, result, ended, readAt>>
rpcVars     == <<rpc, new_pass, handles, calls, crypt, rpcEnded>>
aceVars     == <<nace>>
vars        == <<resolveVars, uacVars, rpcVars, aceVars>>

None == "None"

(***************************************************************************)
(* Each operation is checked on its own, the state of the others at rest.  *)
(***************************************************************************)

ResolveAtRest ==
    /\ serverInfo = <<>> /\ identity = <<>> /\ response = <<>>
    /\ searches = <<>> /\ outcome = [raised |-> "rest"]

UacAtRest ==
    /\ stored = 0 /\ exists = FALSE /\ args = <<>> /\ pc = <<>> /\ user_dn = <<>>
    /\ uac = <<>> /\ modifies = <<>> /\ result = <<>> /\ ended = <<>> /\ readAt = <<>>

RpcAtRest ==
    /\ rpc = "rest" /\ new_pass = <<>> /\ handles = <<>> /\ calls = <<>>
    /\ crypt = [raised |-> "rest"] /\ rpcEnded = [raised |-> "rest"]

AceAtRest == nace = [called |-> TRUE]

(***************************************************************************)
(* Strings                                                                 *)
(***************************************************************************)

\* str.lower() on one character
LowerChar(c) ==
    CASE c = "D" -> "d"
      [] c = "C" -> "c"
      [] c = "S" -> "s"
      [] c = "N" -> "n"
      [] c = "J" -> "j"
      [] OTHER   -> c

\* str.lower()
lower(s) == [i \in 1..Len(s) |-> LowerChar(s[i])]

\* Python's `sub in s`
Contains(sub, s) ==
    \E i \in 1..(Len(s) - Len(sub) + 1) : SubSeq(s, i, i + Len(sub) - 1) = sub

(***************************************************************************)
(* resolvDN                                                                *)
(***************************************************************************)

\* getDefaultNamingContext: the first default naming context of the server
getDefaultNamingContext(info) == info[1]

\* the test of line 70: the identity is taken for a DN
IsDN(ident) == Contains(<<"d", "c", "=">>, lower(ident))

LdapFilterGuidFirst(ident) ==
    IF Contains(<<"{">>, ident)
    THEN <<"(objectGUID=">> \o ident \o <<")">>
    ELSE IF Contains(<<"s", "-", "1", "-">>, lower(ident))
    THEN <<"(objectSid=">> \o ident \o <<")">>
    ELSE <<"(sAMAccountName=">> \o ident \o <<")">>

\* lines 75-83: the filter of an identity that is not a DN
LdapFilter(ident) ==
    IF Contains(<<"s", "-", "1", "-">>, lower(ident))
    THEN <<"(objectSid=">> \o ident \o <<")">>
    ELSE IF Contains(<<"{">>, ident)
    THEN <<"(objectGUID=">> \o ident \o <<")">>
    ELSE <<"(sAMAccountName=">> \o ident \o <<")">>

\* dict.get(key, default)
Get(e, key, default) == IF key \in DOMAIN e THEN e[key] ELSE default

\* the order-preserving list comprehension of line 88
RECURSIVE Filter(_, _)
Filter(s, kind) ==
    IF s = <<>> THEN <<>>
    ELSE IF Get(Head(s), "type", "") = kind
         THEN <<Head(s)>> \o Filter(Tail(s), kind)
         ELSE Filter(Tail(s), kind)

SearchEntriesAnyType(resp) == resp

\* line 88
SearchEntries(resp) == Filter(resp, "searchResEntry")

\* resolvDN(conn, identity): `resp` is conn.response after the search
\* at (naming_context, ldap_filter), looked at only when a search is issued
resolvDN(info, ident, resp) ==
    IF IsDN(ident)
    THEN [raised |-> None, value |-> ident, searched |-> <<>>]
    ELSE LET ldap_filter    == LdapFilter(ident)
             naming_context == getDefaultNamingContext(info)
             entries        == SearchEntries(resp)
             searched       == << <<naming_context, ldap_filter>> >>
         IN  IF Len(entries) < 1
             THEN [raised |-> "NoResultError", searched |-> searched,
                   errargs |-> <<naming_context, ldap_filter>>]
             ELSE IF Len(entries) > 1
             THEN [raised |-> "TooManyResultsError", searched |-> searched,
                   errargs |-> <<naming_context, ldap_filter, entries>>]
             ELSE [raised |-> None, value |-> entries[1].dn, searched |-> searched]

\* ---- inputs

MaxFragments == 2
MaxEntries == 3

Fragments ==
    { <<"d", "c", "=">>, <<"D", "C", "=">>, <<"D", "c">>, <<"=">>,
      <<"S", "-", "1", "-">>, <<"s", "-", "1">>, <<"-">>, <<"{">>, <<"j">> }

RECURSIVE Concats(_)
Concats(n) ==
    IF n = 0 THEN { <<>> }
    ELSE LET shorter == Concats(n - 1)
         IN  shorter \cup { s \o f : s \in shorter, f \in Fragments }

Identities == Concats(MaxFragments)

Dn1 == <<"c", "n", "=", "a", ",", "d", "c", "=", "t">>
Dn2 == <<"c", "n", "=", "b", ",", "d", "c", "=", "t">>

\* what a search response may hold: entries, referrals, untyped records
ResponseItems ==
    { [type |-> "searchResEntry", dn |-> Dn1],
      [type |-> "searchResEntry", dn |-> Dn2],
      [type |-> "searchResRef", uri |-> "ldap://other"],
      [dn |-> Dn1] }

Responses == UNION { [1..n -> ResponseItems] : n \in 0..MaxEntries }

ServerInfos == { << "DC=corp,DC=test" >>, << "DC=lab,DC=local", "DC=corp,DC=test" >> }

ResolveIdle == [raised |-> "idle"]

ResolveInit ==
    /\ UacAtRest /\ RpcAtRest /\ AceAtRest
    /\ serverInfo \in ServerInfos
    /\ identity \in Identities
    /\ response \in Responses
    /\ searches = <<>>
    /\ outcome = ResolveIdle

\* one call of resolvDN(conn, identity); conn.search fills conn.response
ResolvDN ==
    /\ outcome = ResolveIdle
    /\ LET r == resolvDN(serverInfo, identity, response)
       IN  /\ searches' = [ s \in 1..Len(r.searched) |->
                              [base |-> r.searched[s][1], filter |-> r.searched[s][2]] ]
           /\ outcome' = [ k \in DOMAIN r \ {"searched"} |-> r[k] ]
    /\ UNCHANGED <<serverInfo, identity, response, uacVars, rpcVars, aceVars>>

(***************************************************************************)
(* userAccountControl                                                      *)
(***************************************************************************)

\* Python's integers are unbounded two's complement: ~a, a & b, a | b
BitNot(a) == -a - 1

RECURSIVE BitAnd(_, _)
BitAnd(a, b) ==
    IF a = 0 \/ b = 0 THEN 0
    ELSE IF a = -1 THEN b
    ELSE IF b = -1 THEN a
    ELSE (a % 2) * (b % 2) + 2 * BitAnd(a \div 2, b \div 2)

RECURSIVE BitOr(_, _)
BitOr(a, b) ==
    IF a = 0 THEN b
    ELSE IF b = 0 THEN a
    ELSE IF a = -1 \/ b = -1 THEN -1
    ELSE (IF a % 2 = 1 \/ b % 2 = 1 THEN 1 ELSE 0) + 2 * BitOr(a \div 2, b \div 2)

\* line 128: enable = enable == "True"
EnableIsTrue(enable) == enable = "True"

NewValueAlwaysSets(value, enable, flag) == BitOr(value, flag)

NewValueClearsWithAnd(value, enable, flag) ==
    IF EnableIsTrue(enable) THEN BitOr(value, flag) ELSE BitAnd(value, flag)

\* lines 136-139
NewValue(value, enable, flag) ==
    IF EnableIsTrue(enable)
    THEN BitOr(value, flag)
    ELSE BitAnd(value, BitNot(flag))

CheckResultNeverRaises(res) == [raised |-> None]

\* lines 144-147
CheckResult(res) ==
    IF res.result = 0
    THEN [raised |-> None]
    ELSE [raised |-> "ResultError", errargs |-> res]

\* user_dn before line 130
NoDn == <<>>

\* ---- inputs

Callers == {1, 2}

UacBits == 2

\* 2^n
RECURSIVE Pow2(_)
Pow2(n) == IF n = 0 THEN 1 ELSE 2 * Pow2(n - 1)

\* 0x0200 NORMAL_ACCOUNT, 0x0002 ACCOUNTDISABLE
StoredValues == 0..(Pow2(UacBits) - 1) \cup {512, 514}
Flags == { Pow2(i) : i \in 0..(UacBits - 1) } \cup {3}
EnableInputs == {"True", "False"}

\* the object both callers name: by its DN, or by its account name
UacIdentities == { Dn1, <<"j">> }
UacResponses ==
    { <<>>,
      << [type |-> "searchResEntry", dn |-> Dn1] >>,
      << [type |-> "searchResEntry", dn |-> Dn1], [type |-> "searchResEntry", dn |-> Dn2] >> }

\* LDAP result codes: success, noSuchObject, insufficientAccessRights
ResultCodes == {0, 32, 50}
ResultDescription(code) ==
    CASE code = 0  -> "success"
      [] code = 32 -> "noSuchObject"
      [] code = 50 -> "insufficientAccessRights"

UacArgs == [identity : UacIdentities, enable : EnableInputs, flag : Flags]

UacInit ==
    /\ ResolveAtRest /\ RpcAtRest /\ AceAtRest
    /\ stored \in StoredValues
    /\ exists \in BOOLEAN
    /\ args \in [Callers -> UacArgs]
    /\ pc = [c \in Callers |-> "resolvDN"]
    /\ user_dn = [c \in Callers |-> NoDn]
    /\ uac = [c \in Callers |-> None]
    /\ modifies = <<>>
    /\ result = [c \in Callers |-> None]
    /\ ended = [c \in Callers |-> [raised |-> "running"]]
    /\ readAt = [c \in Callers |-> None]

\* line 130: user_dn = resolvDN(conn, identity); an exception ends the call
UacResolve(c) ==
    /\ pc[c] = "resolvDN"
    /\ \E resp \in UacResponses :
         LET r == resolvDN(<< "DC=corp,DC=test" >>, args[c].identity, resp)
         IN  IF r.raised = None
             THEN /\ user_dn' = [user_dn EXCEPT ![c] = r.value]
                  /\ pc' = [pc EXCEPT ![c] = "search"]
                  /\ UNCHANGED ended
             ELSE /\ ended' = [ended EXCEPT ![c] = [raised |-> r.raised, errargs |-> r.errargs]]
                  /\ pc' = [pc EXCEPT ![c] = "done"]
                  /\ UNCHANGED user_dn
    /\ UNCHANGED <<stored, exists, args, uac, modifies, result, readAt>>
    /\ UNCHANGED <<resolveVars, rpcVars, aceVars>>

\* lines 131-139: the search at user_dn, conn.entries[0] (an IndexError on an
\* empty list), and the new value computed in the local variable
UacRead(c) ==
    /\ pc[c] = "search"
    /\ IF exists
       THEN /\ uac' = [uac EXCEPT ![c] = NewValue(stored, args[c].enable, args[c].flag)]
            /\ readAt' = [readAt EXCEPT ![c] = [value |-> stored, at |-> Len(modifies)]]
            /\ pc' = [pc EXCEPT ![c] = "modify"]
            /\ UNCHANGED ended
       ELSE /\ ended' = [ended EXCEPT ![c] = [raised |-> "IndexError"]]
            /\ pc' = [pc EXCEPT ![c] = "done"]
            /\ UNCHANGED <<uac, readAt>>
    /\ UNCHANGED <<stored, exists, args, user_dn, modifies, result>>
    /\ UNCHANGED <<resolveVars, rpcVars, aceVars>>

\* lines 142-147: conn.modify, which the server applies (result 0) or rejects,
\* and the check of conn.result
UacModify(c) ==
    /\ pc[c] = "modify"
    /\ \E code \in ResultCodes :
         LET res == [result |-> code, description |-> ResultDescription(code)]
         IN  /\ modifies' = Append(modifies,
                     [caller |-> c, dn |-> user_dn[c], attribute |-> "userAccountControl",
                      op |-> "MODIFY_REPLACE", values |-> << uac[c] >>, result |-> code])
             /\ stored' = IF code = 0 THEN uac[c] ELSE stored
             /\ result' = [result EXCEPT ![c] = res]
             /\ ended' = [ended EXCEPT ![c] = CheckResult(res)]
    /\ pc' = [pc EXCEPT ![c] = "done"]
    /\ UNCHANGED <<exists, args, user_dn, uac, readAt>>
    /\ UNCHANGED <<resolveVars, rpcVars, aceVars>>

(***************************************************************************)
(* cryptPassword                                                           *)
(***************************************************************************)

\* the size of SAMPR_USER_PASSWORD's Buffer, line 115
BufferSize == 512

\* b'A'
Filler == 65

\* one code point in UTF-16LE: two bytes, or a surrogate pair
Utf16leChar(cp) ==
    IF cp < 65536
    THEN << cp % 256, cp \div 256 >>
    ELSE LET v  == cp - 65536
             hi == 55296 + (v \div 1024)
             lo == 56320 + (v % 1024)
         IN  << hi % 256, hi \div 256, lo % 256, lo \div 256 >>

\* password.encode('utf-16le'), line 113
RECURSIVE Utf16le(_)
Utf16le(s) ==
    IF Len(s) = 0 THEN <<>>
    ELSE IF Len(s) = 1 THEN Utf16leChar(s[1])
    ELSE LET h == Len(s) \div 2
         IN  Utf16le(SubSeq(s, 1, h)) \o Utf16le(SubSeq(s, h + 1, Len(s)))

\* bytes * n: empty when n is not positive
Repeat(b, n) == [i \in 1..n |-> b]

\* a ULONG on the wire
ULong(n) == << n % 256, (n \div 256) % 256, (n \div 65536) % 256, (n \div 16777216) % 256 >>

\* SAMPR_USER_PASSWORD.getData(), line 117: Buffer is a fixed field of
\* BufferSize bytes (longer data is cut to it), followed by Length
GetData(sam_user_pass) ==
    SubSeq(sam_user_pass.Buffer, 1, BufferSize) \o ULong(sam_user_pass.Length)

\* lines 112-124; encBuf stands for ARC4 under session_key of pwdBuff
cryptPassword(session_key, password) ==
    LET encoded_pass  == Utf16le(password)
        plen          == Len(encoded_pass)
        sam_user_pass == [Buffer |-> Repeat(Filler, BufferSize - plen) \o encoded_pass,
                          Length |-> plen]
        pwdBuff       == GetData(sam_user_pass)
    IN  [raised |-> None,
         sam_user_pass |-> sam_user_pass,
         encrypted |-> << [cipher |-> "ARC4", key |-> session_key, data |-> pwdBuff] >>]

\* ---- inputs

MaxPwdLen == 258

\* 'p', 'A', the euro sign; an emoji outside the BMP, 'a'
PwdAlphabets == { << 112, 65, 8364 >>, << 128512, 97 >> }

Password(n, alphabet) == [i \in 1..n |-> alphabet[((i - 1) % Len(alphabet)) + 1]]

Passwords == { Password(n, a) : n \in 0..MaxPwdLen, a \in PwdAlphabets }

\* line 173
SessionKey == "SystemLibraryDTC"

NoHandles ==
    [dce |-> None, server_handle |-> None, domainSID |-> None,
     domain_handle |-> None, userRID |-> None, opened_user |-> None]

CryptIdle == [raised |-> "idle"]

\* cryptPassword called on its own
CryptInit ==
    /\ ResolveAtRest /\ UacAtRest /\ AceAtRest
    /\ rpc = "cryptPassword"
    /\ new_pass \in Passwords
    /\ handles = NoHandles
    /\ calls = <<>>
    /\ crypt = CryptIdle
    /\ rpcEnded = [raised |-> "running"]

\* line 173: the call of cryptPassword
CryptPassword ==
    /\ rpc = "cryptPassword"
    /\ crypt' = cryptPassword(SessionKey, new_pass)
    /\ rpc' = "request"
    /\ UNCHANGED <<new_pass, handles, calls, rpcEnded, resolveVars, uacVars, aceVars>>

(***************************************************************************)
(* rpcChangePassword                                                       *)
(***************************************************************************)

MaxHandle == 2

\* the values a remote call may return
HandleValues == 1..MaxHandle

\* conn.conf.host, conn.conf.domain, target
Host == "dc01"
Domain == "CORP"
Target == "svc"

\* the passwords of the call: short ones, and ones around the buffer's size
RpcPasswords ==
    { Password(n, a) : n \in {0, 3, BufferSize \div 4, BufferSize \div 2, (BufferSize \div 2) + 1},
                       a \in PwdAlphabets }

RpcInit ==
    /\ ResolveAtRest /\ UacAtRest /\ AceAtRest
    /\ rpc = "getSamrConnection"
    /\ new_pass \in RpcPasswords
    /\ handles = NoHandles
    /\ calls = <<>>
    /\ crypt = CryptIdle
    /\ rpcEnded = [raised |-> "running"]

\* a call that returns `value`, kept under `key`, or raises: the exception
\* leaves rpcChangePassword, which has no handler
Remote(name, arguments, key, next) ==
    \E ok \in BOOLEAN, value \in HandleValues :
        /\ calls' = Append(calls, [call |-> name, arguments |-> arguments, ok |-> ok,
                                   returned |-> IF ok THEN value ELSE None])
        /\ IF ok
           THEN /\ handles' = [handles EXCEPT ![key] = value]
                /\ rpc' = next
                /\ UNCHANGED rpcEnded
           ELSE /\ rpcEnded' = [raised |-> "DCERPCException", step |-> name]
                /\ rpc' = "done"
                /\ UNCHANGED handles
        /\ UNCHANGED <<new_pass, crypt, resolveVars, uacVars, aceVars>>

\* line 161: dce = conn.getSamrConnection()
GetSamrConnection ==
    /\ rpc = "getSamrConnection"
    /\ \E ok \in BOOLEAN, value \in HandleValues :
        IF ok
        THEN /\ handles' = [handles EXCEPT !.dce = value]
             /\ rpc' = "hSamrConnect"
             /\ UNCHANGED rpcEnded
        ELSE /\ rpcEnded' = [raised |-> "Exception", step |-> "getSamrConnection"]
             /\ rpc' = "done"
             /\ UNCHANGED handles
    /\ UNCHANGED <<new_pass, calls, crypt, resolveVars, uacVars, aceVars>>

\* line 162
HSamrConnect ==
    /\ rpc = "hSamrConnect"
    /\ Remote("hSamrConnect", [dce |-> handles.dce, serverName |-> << Host, "\\x00" >>],
              "server_handle", "hSamrLookupDomainInSamServer")

\* line 163
HSamrLookupDomainInSamServer ==
    /\ rpc = "hSamrLookupDomainInSamServer"
    /\ Remote("hSamrLookupDomainInSamServer",
              [dce |-> handles.dce, serverHandle |-> handles.server_handle, name |-> Domain],
              "domainSID", "hSamrOpenDomain")

\* line 164
HSamrOpenDomain ==
    /\ rpc = "hSamrOpenDomain"
    /\ Remote("hSamrOpenDomain",
              [dce |-> handles.dce, serverHandle |-> handles.server_handle,
               domainId |-> handles.domainSID],
              "domain_handle", "hSamrLookupNamesInDomain")

\* line 165
HSamrLookupNamesInDomain ==
    /\ rpc = "hSamrLookupNamesInDomain"
    /\ Remote("hSamrLookupNamesInDomain",
              [dce |-> handles.dce, domainHandle |-> handles.domain_handle,
               names |-> << Target >>],
              "userRID", "hSamrOpenUser")

OpenUserArgumentsServerHandle ==
    [dce |-> handles.dce, domainHandle |-> handles.server_handle, userId |-> handles.userRID]

\* the arguments of line 166
OpenUserArguments ==
    [dce |-> handles.dce, domainHandle |-> handles.domain_handle, userId |-> handles.userRID]

\* line 166
HSamrOpenUser ==
    /\ rpc = "hSamrOpenUser"
    /\ Remote("hSamrOpenUser", OpenUserArguments, "opened_user", "cryptPassword")

\* lines 168-174: the SamrSetInformationUser2 request
SetInformationRequest ==
    [UserHandle |-> handles.opened_user,
     UserInformationClass |-> "UserInternal5Information",
     Buffer |-> [tag |-> "UserInternal5Information",
                 Internal5 |-> [UserPassword |-> crypt.encrypted,
                                PasswordExpired |-> 0]]]

\* lines 176-177: resp = dce.request(req); return resp
Request ==
    /\ rpc = "request"
    /\ \E ok \in BOOLEAN, resp \in HandleValues :
        /\ calls' = Append(calls, [call |-> "SamrSetInformationUser2",
                                   arguments |-> [dce |-> handles.dce, req |-> SetInformationRequest],
                                   ok |-> ok, returned |-> IF ok THEN resp ELSE None])
        /\ rpcEnded' = IF ok THEN [raised |-> None, value |-> resp]
                             ELSE [raised |-> "DCERPCException", step |-> "SamrSetInformationUser2"]
    /\ rpc' = "done"
    /\ UNCHANGED <<new_pass, handles, crypt, resolveVars, uacVars, aceVars>>

(***************************************************************************)
(* createACE                                                               *)
(***************************************************************************)

\* the default of accesstype, line 15: full control
FullControl == 983551

\* LDAP_SID.fromCanonical on the items of 'S-1-5-32-544' between the dashes
fromCanonical(items) ==
    [Revision |-> items[2],
     SubAuthorityCount |-> Len(items) - 3,
     IdentifierAuthority |-> items[3],
     SubAuthority |-> SubSeq(items, 4, Len(items))]

\* impacket.uuid.string_to_bin on the 16 bytes of a GUID in printed order:
\* the first three groups are stored little-endian
string_to_bin(g) ==
    << g[4], g[3], g[2], g[1], g[6], g[5], g[8], g[7] >> \o SubSeq(g, 9, 16)

\* line 17: the type tag, whatever privguid is
AceType(privguid) == "ACCESS_ALLOWED_OBJECT_ACE.ACE_TYPE"

\* privguid=None
NoGuid == <<>>

\* lines 15-38
createACE(sid, privguid, accesstype) ==
    LET mask == [Mask |-> accesstype]
        asid == IF "str" \in DOMAIN sid THEN fromCanonical(sid.str) ELSE sid.LDAP_SID
        acedata ==
            IF privguid = NoGuid
            THEN [struct |-> "ACCESS_ALLOWED_ACE", Mask |-> mask, Sid |-> asid]
            ELSE [struct |-> "ACCESS_ALLOWED_OBJECT_ACE",
                  ObjectType |-> string_to_bin(privguid),
                  InheritedObjectType |-> <<>>,
                  Flags |-> {"ACE_OBJECT_TYPE_PRESENT"},
                  Mask |-> mask, Sid |-> asid]
    IN  [AceType |-> AceType(privguid), AceFlags |-> 0, Ace |-> acedata]

\* ---- inputs

MaxRids == 3

\* Everyone, BUILTIN\Administrators, domain accounts
CanonicalSids ==
    { << "S", 1, 1, 0 >>, << "S", 1, 5, 32, 544 >> }
    \cup { << "S", 1, 5, 21, 1111111111, 222222222, 333333333, 1104 + r >> : r \in 0..(MaxRids - 1) }

\* a canonical string, or an LDAP_SID already built
SidInputs ==
    { [str |-> c] : c \in CanonicalSids }
    \cup { [LDAP_SID |-> fromCanonical(c)] : c \in CanonicalSids }

\* DS-Replication-Get-Changes, User-Force-Change-Password
PrivGuids ==
    { << 17, 49, 246, 170, 156, 7, 17, 209, 247, 159, 0, 192, 79, 194, 220, 210 >>,
      << 0, 41, 149, 112, 13, 106, 17, 208, 162, 133, 0, 170, 0, 48, 73, 226 >> }

AccessTypes == { FullControl, 256, 32, 131072 }

\* the calls: privguid and accesstype may each be left out
AceInputs ==
    [sid : SidInputs]
    \cup [sid : SidInputs, privguid : PrivGuids]
    \cup [sid : SidInputs, accesstype : AccessTypes]
    \cup [sid : SidInputs, privguid : PrivGuids, accesstype : AccessTypes]

AceInit ==
    /\ ResolveAtRest /\ UacAtRest /\ RpcAtRest
    /\ nace = [called |-> FALSE]

\* one call; a parameter left out takes its default of line 15
CreateACE ==
    /\ nace.called = FALSE
    /\ \E input \in AceInputs :
         nace' = [called |-> TRUE, input |-> input,
                  ace |-> createACE(input.sid, Get(input, "privguid", NoGuid),
                                    Get(input, "accesstype", FullControl))]
    /\ UNCHANGED <<resolveVars, uacVars, rpcVars>>

(***************************************************************************)
(* Specifications                                                          *)
(***************************************************************************)

ResolveNext == ResolvDN
SpecResolve == ResolveInit /\ [][ResolveNext]_vars

UacNext == \E c \in Callers : UacResolve(c) \/ UacRead(c) \/ UacModify(c)
SpecUac == UacInit /\ [][UacNext]_vars

CryptNext == CryptPassword
SpecCrypt == CryptInit /\ [][CryptNext]_vars

RpcNext ==
    \/ GetSamrConnection
    \/ HSamrConnect
    \/ HSamrLookupDomainInSamServer
    \/ HSamrOpenDomain
    \/ HSamrLookupNamesInDomain
    \/ HSamrOpenUser
    \/ CryptPassword
    \/ Request
SpecRpc == RpcInit /\ [][RpcNext]_vars

AceNext == CreateACE
SpecAce == AceInit /\ [][AceNext]_vars

(***************************************************************************)
(* Properties                                                              *)
(***************************************************************************)

IsSearchResEntry(e) == "type" \in DOMAIN e /\ e.type = "searchResEntry"

ResolveDone == outcome.raised \notin {"idle", "rest"}

\* the tests of lines 70, 75 and 78, character by character
HasDc(s) ==
    \E i \in 1..(Len(s) - 2) :
        s[i] \in {"d", "D"} /\ s[i + 1] \in {"c", "C"} /\ s[i + 2] = "="
HasSid(s) ==
    \E i \in 1..(Len(s) - 3) :
        s[i] \in {"s", "S"} /\ s[i + 1] = "-" /\ s[i + 2] = "1" /\ s[i + 3] = "-"
HasBrace(s) == \E i \in 1..Len(s) : s[i] = "{"

\* C1: for an identity that is not taken for a DN, resolvDN issues one search
\* at the default naming context and counts only the response's
\* searchResEntry items: none raises NoResultError(base, filter), two or more
\* raise TooManyResultsError(base, filter, entries), exactly one returns that
\* entry's dn; a DN is never returned on any other count.
C1_SingleMatch ==
    (ResolveDone /\ ~HasDc(identity)) =>
        LET found == SelectSeq(response, IsSearchResEntry)
            n     == Len(found)
        IN  /\ Len(searches) = 1
            /\ searches[1].base = serverInfo[1]
            /\ n = 0 => outcome = [raised |-> "NoResultError",
                                   errargs |-> << serverInfo[1], searches[1].filter >>]
            /\ n >= 2 => outcome = [raised |-> "TooManyResultsError",
                                    errargs |-> << serverInfo[1], searches[1].filter, found >>]
            /\ n = 1 => outcome = [raised |-> None, value |-> found[1].dn]
            /\ outcome.raised = None => n = 1

\* C1's case: one entry among a referral and an untyped record, its dn returned
C1_Witness ==
    /\ ResolveDone /\ ~HasDc(identity)
    /\ Len(response) = 3
    /\ Len(SelectSeq(response, IsSearchResEntry)) = 1
    /\ ~IsSearchResEntry(response[1])
    /\ outcome.raised = None

\* C2: resolvDN takes the first rule that matches, letter case ignored:
\* 'dc=' returns the identity as it is and searches nothing, else 's-1-'
\* searches (objectSid=identity), else '{' searches (objectGUID=identity),
\* else (sAMAccountName=identity).
C2_Classification ==
    ResolveDone =>
        IF HasDc(identity)
        THEN outcome = [raised |-> None, value |-> identity] /\ searches = <<>>
        ELSE /\ Len(searches) = 1
             /\ searches[1].filter =
                    << IF HasSid(identity) THEN "(objectSid="
                       ELSE IF HasBrace(identity) THEN "(objectGUID="
                       ELSE "(sAMAccountName=" >> \o identity \o << ")" >>

\* C2's case: an identity with both 'S-1-' and '{' is searched by objectSid
C2_Witness ==
    /\ ResolveDone
    /\ HasSid(identity) /\ HasBrace(identity) /\ ~HasDc(identity)
    /\ \E i \in 1..Len(identity) : identity[i] = "S"
    /\ searches[1].filter[1] = "(objectSid="

\* bit b of a natural number
Bit(n, b) == (n \div Pow2(b)) % 2
BitRange == 0..11

\* the modify requests caller c sent
ModifiesOf(c) == { i \in 1..Len(modifies) : modifies[i].caller = c }

\* C3: each call sends at most one modify, a replace of userAccountControl at
\* the resolved DN, whose value is bit by bit v OR f when enable is "True" and
\* v AND NOT f otherwise, v being the value read; so setting a set flag or
\* clearing a cleared one writes v, and 0x0200 with 0x0002 set writes 0x0202.
C3_NewValue ==
    \A c \in DOMAIN pc :
        /\ Cardinality(ModifiesOf(c)) <= 1
        /\ \A i \in ModifiesOf(c) :
            LET m == modifies[i]
                v == readAt[c].value
                f == args[c].flag
                w == m.values[1]
                on == args[c].enable = "True"
            IN  /\ m.op = "MODIFY_REPLACE"
                /\ m.attribute = "userAccountControl"
                /\ m.dn = Dn1
                /\ Len(m.values) = 1
                /\ w >= 0 /\ w < Pow2(12)
                /\ \A b \in BitRange :
                       Bit(w, b) = IF Bit(f, b) = 1 THEN (IF on THEN 1 ELSE 0) ELSE Bit(v, b)
                /\ (on /\ \A b \in BitRange : Bit(f, b) = 1 => Bit(v, b) = 1) => w = v
                /\ (~on /\ \A b \in BitRange : Bit(f, b) = 1 => Bit(v, b) = 0) => w = v
                /\ (on /\ f = 2 /\ v = 512) => w = 514

\* C3's case: ACCOUNTDISABLE set on 0x0200, 0x0202 sent
C3_Witness ==
    \E c \in DOMAIN pc : \E i \in ModifiesOf(c) :
        /\ args[c].enable = "True" /\ args[c].flag = 2 /\ readAt[c].value = 512
        /\ modifies[i].values = << 514 >>

\* the stored value shows caller c's toggle
Reflects(c) ==
    \A b \in BitRange :
        Bit(args[c].flag, b) = 1 =>
            Bit(stored, b) = IF args[c].enable = "True" THEN 1 ELSE 0

\* both calls ended well, on flags that share no bit
BothToggled ==
    /\ DOMAIN pc = Callers
    /\ \A c \in Callers : pc[c] = "done" /\ ended[c].raised = None
    /\ Len(modifies) = 2
    /\ \A b \in BitRange : Bit(args[1].flag, b) * Bit(args[2].flag, b) = 0

\* the second writer read before the first one wrote
Overlapped == readAt[modifies[2].caller].at = 0

\* C8: the read and the write of userAccountControl are two steps. When two
\* callers toggle different flags and both read before either writes, the
\* value stored in the end is the last writer's toggle of the value both read
\* (the first writer's update is lost); when the second caller reads after
\* the first one wrote, the stored value shows both toggles.
C8_LastWriterWins ==
    BothToggled =>
        LET first == modifies[1].caller
            last  == modifies[2].caller
        IN  /\ first # last
            /\ stored = modifies[2].values[1]
            /\ Reflects(last)
            /\ ~Overlapped => Reflects(first)
            /\ Overlapped =>
                   \A b \in BitRange :
                       Bit(args[last].flag, b) = 0 =>
                           Bit(stored, b) = Bit(readAt[first].value, b)

\* C8's case: interleaved calls, the first writer's toggle gone from the value
C8_Witness ==
    /\ BothToggled
    /\ Overlapped
    /\ ~Reflects(modifies[1].caller)

\* C9: a read at the resolved DN that yields no entry ends the call with
\* NoResultError, and no modify is sent.
C9_NoEntryIsNoResultError ==
    \A c \in DOMAIN pc :
        (pc[c] = "done" /\ user_dn[c] # NoDn /\ ~exists) =>
            /\ ended[c].raised = "NoResultError"
            /\ ModifiesOf(c) = {}

\* C10: once its modify is sent, the call ends well exactly when the result
\* code is 0; on any other code it raises ResultError carrying conn.result.
C10_ResultChecked ==
    \A c \in DOMAIN pc : \A i \in ModifiesOf(c) :
        pc[c] = "done" =>
            LET code == modifies[i].result
            IN  /\ ended[c].raised = None <=> code = 0
                /\ code # 0 => /\ ended[c].raised = "ResultError"
                               /\ ended[c].errargs = result[c]
                               /\ ended[c].errargs.result = code

\* C10's case: a modify the server rejected for insufficient access rights
C10_Witness ==
    \E c \in DOMAIN pc : \E i \in ModifiesOf(c) :
        /\ pc[c] = "done"
        /\ modifies[i].result = 50
        /\ ended[c].raised = "ResultError"

\* the six remote calls, in order
CallOrder ==
    << "hSamrConnect", "hSamrLookupDomainInSamServer", "hSamrOpenDomain",
       "hSamrLookupNamesInDomain", "hSamrOpenUser", "SamrSetInformationUser2" >>

\* C4: the remote calls are issued in the order connect, lookup domain, open
\* domain, lookup account, open account, set user information, each on the
\* handle or identifier the earlier step returned; a call follows only calls
\* that succeeded, a failed call ends the operation with its failure and no
\* value, and a value is returned only after all six succeeded.
C4_CallSequence ==
    LET n == Len(calls)
    IN  /\ n <= 6
        /\ \A i \in 1..n : calls[i].call = CallOrder[i]
        /\ \A i \in 1..(n - 1) : calls[i].ok
        /\ n >= 2 => calls[2].arguments.serverHandle = calls[1].returned
        /\ n >= 3 => /\ calls[3].arguments.serverHandle = calls[1].returned
                     /\ calls[3].arguments.domainId = calls[2].returned
        /\ n >= 4 => calls[4].arguments.domainHandle = calls[3].returned
        /\ n >= 5 => /\ calls[5].arguments.domainHandle = calls[3].returned
                     /\ calls[5].arguments.userId = calls[4].returned
        /\ n >= 6 => calls[6].arguments.req.UserHandle = calls[5].returned
        /\ (n >= 1 /\ ~calls[n].ok) =>
               /\ rpc = "done"
               /\ rpcEnded = [raised |-> "DCERPCException", step |-> calls[n].call]
        /\ rpcEnded.raised = None =>
               /\ n = 6 /\ calls[6].ok
               /\ rpcEnded.value = calls[6].returned

\* C4's case: five calls succeeded, the set-user-information request failed
C4_Witness ==
    /\ Len(calls) = 6
    /\ ~calls[6].ok
    /\ rpcEnded.raised = "DCERPCException"
    /\ calls[3].returned # calls[1].returned

\* the length of a password's UTF-16LE encoding, in bytes
EncodedLength(p) == 2 * Len(p) + 2 * Cardinality({ i \in 1..Len(p) : p[i] >= 65536 })

\* C5: a password whose UTF-16LE encoding is longer than 512 bytes makes
\* cryptPassword fail with PasswordTooLong, nothing is encrypted, and
\* rpcChangePassword sends no set-user-information request.
C5_PasswordTooLong ==
    (crypt.raised \notin {"idle", "rest"} /\ EncodedLength(new_pass) > BufferSize) =>
        /\ crypt.raised = "PasswordTooLong"
        /\ crypt.encrypted = <<>>
        /\ \A i \in 1..Len(calls) : calls[i].call # "SamrSetInformationUser2"

\* C6: the password buffer given to the cipher is exactly 512 bytes, ends
\* with the UTF-16LE password, holds 0x41 before it, and is followed by a
\* length field equal to the password's encoded length.
C6_PaddedBuffer ==
    crypt.raised \notin {"idle", "rest"} =>
        \A k \in 1..Len(crypt.encrypted) :
            LET data   == crypt.encrypted[k].data
                buffer == SubSeq(data, 1, Len(data) - 4)
                length == SubSeq(data, Len(data) - 3, Len(data))
                plen   == EncodedLength(new_pass)
            IN  /\ Len(buffer) = 512
                /\ plen <= 512
                /\ SubSeq(buffer, 512 - plen + 1, 512) = Utf16le(new_pass)
                /\ \A i \in 1..(512 - plen) : buffer[i] = 65
                /\ length = ULong(plen)

\* C7: without privguid the ACE has the plain access-allowed type tag, no
\* object-type fields and no object-type-present flag; with it, the
\* object-scoped tag, the 16-byte object type, an empty inherited object type
\* and the object-type-present flag alone. The flags byte is 0 and the mask is
\* the given one, 983551 when none is given.
C7_AceVariant ==
    "ace" \in DOMAIN nace =>
        LET ace   == nace.ace
            input == nace.input
        IN  /\ ace.AceFlags = 0
            /\ ace.Ace.Mask.Mask =
                   IF "accesstype" \in DOMAIN input THEN input.accesstype ELSE 983551
            /\ IF "privguid" \in DOMAIN input
               THEN /\ ace.AceType = "ACCESS_ALLOWED_OBJECT_ACE.ACE_TYPE"
                    /\ Len(ace.Ace.ObjectType) = 16
                    /\ ace.Ace.InheritedObjectType = <<>>
                    /\ ace.Ace.Flags = {"ACE_OBJECT_TYPE_PRESENT"}
               ELSE /\ ace.AceType = "ACCESS_ALLOWED_ACE.ACE_TYPE"
                    /\ DOMAIN ace.Ace = {"struct", "Mask", "Sid"}

====
